---- MODULE Spec2Model ----
(***************************************************************************)
(* Model of the Library data layer of main3.py: the Book record, the       *)
(* in-memory list self.books, and the two canonical files                  *)
(* library_data.json / library_data.csv it is saved to and loaded from.    *)
(*                                                                         *)
(* Python strings are sequences of one-character strings, so that          *)
(* str.lower(), the substring test `in`, str(int) and int(str) are         *)
(* computed character by character.                                        *)
(***************************************************************************)
EXTENDS Integers, Sequences, FiniteSets, TLC

(***************************************************************************)
(* Bounds of the model.                                                    *)
(***************************************************************************)
\* longest list self.books may grow to (add_book / import_library guards)
MaxBooks == 2

(***************************************************************************)
(* Python values.  Every value has the same three fields so that any two   *)
(* of them can be compared.                                                *)
(***************************************************************************)
PyStr(cs) == [tag |-> "str", s |-> cs, n |-> 0]
PyInt(k) == [tag |-> "int", s |-> <<>>, n |-> k]
PyNone == [tag |-> "none", s |-> <<>>, n |-> 0]

UPPERCASE == <<"A", "B", "C", "D", "E", "F", "G", "H", "I", "J", "K", "L", "M",
               "N", "O", "P", "Q", "R", "S", "T", "U", "V", "W", "X", "Y", "Z">>
LOWERCASE == <<"a", "b", "c", "d", "e", "f", "g", "h", "i", "j", "k", "l", "m",
               "n", "o", "p", "q", "r", "s", "t", "u", "v", "w", "x", "y", "z">>
DIGITS == <<"0", "1", "2", "3", "4", "5", "6", "7", "8", "9">>

\* str.lower() on one character
LowerChar(c) ==
    IF \E i \in 1..26 : UPPERCASE[i] = c
    THEN LOWERCASE[CHOOSE i \in 1..26 : UPPERCASE[i] = c]
    ELSE c

\* str.lower()
Lower(cs) == [i \in 1..Len(cs) |-> LowerChar(cs[i])]

\* the Python test `q in cs` on strings: q occurs in cs as a substring
Contains(q, cs) ==
    \E k \in 0..(Len(cs) - Len(q)) :
        \A i \in 1..Len(q) : cs[k + i] = q[i]

IsDigit(c) == \E d \in 1..10 : DIGITS[d] = c
DigitVal(c) == (CHOOSE d \in 1..10 : DIGITS[d] = c) - 1

RECURSIVE NatToText(_)
\* decimal digits of a natural number, most significant first
NatToText(k) ==
    IF k < 10 THEN <<DIGITS[k + 1]>>
    ELSE Append(NatToText(k \div 10), DIGITS[(k % 10) + 1])

\* str(k) for an int k
IntToText(k) == IF k < 0 THEN <<"-">> \o NatToText(0 - k) ELSE NatToText(k)

RECURSIVE DigitsToNat(_)
DigitsToNat(cs) ==
    IF cs = <<>> THEN 0
    ELSE 10 * DigitsToNat(SubSeq(cs, 1, Len(cs) - 1)) + DigitVal(cs[Len(cs)])

RECURSIVE StripLeft(_)
StripLeft(cs) ==
    IF cs # <<>> /\ cs[1] = " " THEN StripLeft(Tail(cs)) ELSE cs

RECURSIVE StripRight(_)
StripRight(cs) ==
    IF cs # <<>> /\ cs[Len(cs)] = " "
    THEN StripRight(SubSeq(cs, 1, Len(cs) - 1)) ELSE cs

\* str.strip(), as int() applies it to its argument
Strip(cs) == StripRight(StripLeft(cs))

\* the digits of a literal, after the optional sign
Unsigned(cs) ==
    IF cs # <<>> /\ (cs[1] = "-" \/ cs[1] = "+") THEN Tail(cs) ELSE cs

\* int(v) raises: TypeError on None, ValueError on a string that is not an
\* optionally signed run of decimal digits (surrounding blanks allowed)
IntRaises(v) ==
    CASE v.tag = "int" -> FALSE
      [] v.tag = "none" -> TRUE
      [] OTHER ->
           LET u == Unsigned(Strip(v.s))
           IN  u = <<>> \/ \E i \in 1..Len(u) : ~IsDigit(u[i])

\* int(v) when it does not raise
IntOf(v) ==
    IF v.tag = "int" THEN v.n
    ELSE LET t == Strip(v.s)
             m == DigitsToNat(Unsigned(t))
         IN  IF t[1] = "-" THEN 0 - m ELSE m

\* str(v), as csv.DictWriter writes a field: None is written as the
\* empty string
TextOf(v) ==
    CASE v.tag = "int" -> IntToText(v.n)
      [] v.tag = "none" -> <<>>
      [] OTHER -> v.s

(***************************************************************************)
(* class Book                                                              *)
(***************************************************************************)
FIELDNAMES == <<"title", "author", "genre", "year">>
Keys == {"title", "author", "genre", "year"}

\* Book.__init__: the four constructor arguments, stored as given
Book(title, author, genre, year) == <<title, author, genre, year>>
TitleOf(book) == book[1]
AuthorOf(book) == book[2]
GenreOf(book) == book[3]
YearOf(book) == book[4]

\* Book.to_dict
to_dict(book) ==
    [title |-> TitleOf(book), author |-> AuthorOf(book),
     genre |-> GenreOf(book), year |-> YearOf(book)]

\* Book.from_dict raises KeyError when one of the four keys is absent
from_dict_raises(data) == ~(Keys \subseteq DOMAIN data)

\* Book.from_dict: the four values are passed on unchanged
from_dict(data) == Book(data["title"], data["author"], data["genre"], data["year"])

(***************************************************************************)
(* Files.  A file is absent, or holds a JSON document (an array of         *)
(* objects), or a CSV table (a header line and data lines), or is "blank"  *)
(* (no bytes: json.load fails on it, csv.DictReader finds no line in it),  *)
(* or is "garbage" (text neither parser accepts).                          *)
(***************************************************************************)
Absent == [exists |-> FALSE, kind |-> "none", doc |-> <<>>, header |-> <<>>, rows |-> <<>>]
Blank == [exists |-> TRUE, kind |-> "blank", doc |-> <<>>, header |-> <<>>, rows |-> <<>>]
Garbage == [exists |-> TRUE, kind |-> "garbage", doc |-> <<>>, header |-> <<>>, rows |-> <<>>]
JsonText(doc) == [exists |-> TRUE, kind |-> "json", doc |-> doc, header |-> <<>>, rows |-> <<>>]
CsvText(header, rows) == [exists |-> TRUE, kind |-> "csv", doc |-> <<>>, header |-> header, rows |-> rows]

\* json.dump of one value: a str is written as a JSON string, an int as a
\* JSON number, None as null
JsonEncode(v) ==
    [j |-> CASE v.tag = "str" -> "string" [] v.tag = "int" -> "number" [] OTHER -> "null",
     s |-> v.s, n |-> v.n]

\* json.load of one value
JsonDecode(jv) ==
    CASE jv.j = "string" -> PyStr(jv.s)
      [] jv.j = "number" -> PyInt(jv.n)
      [] OTHER -> PyNone

\* json.dump([book.to_dict() for book in self.books], f, indent=2)
JsonDump(bs) ==
    [i \in 1..Len(bs) |-> [k \in Keys |-> JsonEncode(to_dict(bs[i])[k])]]

\* json.load(f) of one object of the array
JsonObject(obj) == [k \in DOMAIN obj |-> JsonDecode(obj[k])]

\* the result of reading a file: the records, or the exception
Loaded(bs) == [ok |-> TRUE, books |-> bs]
Raised == [ok |-> FALSE, books |-> <<>>]

RECURSIVE BooksFromJson(_, _)
\* [Book.from_dict(book_data) for book_data in data]: the list is built
\* element by element and is lost when one element raises
BooksFromJson(data, acc) ==
    IF data = <<>> THEN Loaded(acc)
    ELSE IF from_dict_raises(JsonObject(Head(data))) THEN Raised
    ELSE BooksFromJson(Tail(data), Append(acc, from_dict(JsonObject(Head(data)))))

\* open(filename, 'r'); json.load(f); the comprehension over the data
ReadJson(file) ==
    IF ~file.exists \/ file.kind # "json" THEN Raised
    ELSE BooksFromJson(file.doc, <<>>)

\* writer.writeheader(); writer.writerow(book.to_dict()) for each book
CsvDump(bs) ==
    CsvText(FIELDNAMES,
            [i \in 1..Len(bs) |->
                [c \in 1..Len(FIELDNAMES) |-> TextOf(to_dict(bs[i])[FIELDNAMES[c]])]])

\* the lines csv.reader finds in a file that was not written as CSV: none
\* in a blank file or in the one-line document "[]"; in a longer
\* pretty-printed JSON document the first line "[" is taken as the header
CsvHeader(file) ==
    CASE file.kind = "csv" -> file.header
      [] file.kind = "json" /\ file.doc # <<>> -> <<"[">>
      [] OTHER -> <<>>

CsvRows(file) ==
    CASE file.kind = "csv" -> file.rows
      [] file.kind = "json" /\ file.doc # <<>> -> << << <<" ", " ", "{">> >> >>
      [] OTHER -> <<>>

\* csv.DictReader: one dict per line, keyed by the header; a field the
\* line lacks is None (restval)
CsvDict(header, row) ==
    [k \in {header[c] : c \in 1..Len(header)} |->
        LET c == CHOOSE c \in 1..Len(header) : header[c] = k
        IN  IF c <= Len(row) THEN PyStr(row[c]) ELSE PyNone]

\* Book(row['title'], row['author'], row['genre'], int(row['year'])) raises
\* KeyError on a missing column, TypeError / ValueError from int()
CsvRowRaises(d) == ~(Keys \subseteq DOMAIN d) \/ IntRaises(d["year"])

CsvBook(d) == Book(d["title"], d["author"], d["genre"], PyInt(IntOf(d["year"])))

RECURSIVE BooksFromCsv(_, _, _)
\* the comprehension over the reader; DictReader skips empty lines
BooksFromCsv(header, rows, acc) ==
    IF rows = <<>> THEN Loaded(acc)
    ELSE IF Head(rows) = <<>> THEN BooksFromCsv(header, Tail(rows), acc)
    ELSE IF CsvRowRaises(CsvDict(header, Head(rows))) THEN Raised
    ELSE BooksFromCsv(header, Tail(rows), Append(acc, CsvBook(CsvDict(header, Head(rows)))))

\* open(filename, 'r', newline=''); csv.DictReader(f); the comprehension
ReadCsv(file) ==
    IF ~file.exists \/ file.kind = "garbage" THEN Raised
    ELSE BooksFromCsv(CsvHeader(file), CsvRows(file), <<>>)

(***************************************************************************)
(* Paths and the files found outside the two canonical ones.               *)
(***************************************************************************)
\* Library.__init__: self.json_filename, self.csv_filename
JSON_FILENAME == <<"l", "i", "b", "r", "a", "r", "y", "_", "d", "a", "t", "a", ".", "j", "s", "o", "n">>
CSV_FILENAME == <<"l", "i", "b", "r", "a", "r", "y", "_", "d", "a", "t", "a", ".", "c", "s", "v">>
\* a path outside the two canonical ones that a caller exports to; what
\* is written there is not read again by the program
EXPORT_PATH == <<"o", "u", "t", ".", "j", "s", "o", "n">>

\* str.endswith
EndsWith(cs, suffix) ==
    /\ Len(suffix) <= Len(cs)
    /\ SubSeq(cs, Len(cs) - Len(suffix) + 1, Len(cs)) = suffix

DOT_JSON == <<".", "j", "s", "o", "n">>
DOT_CSV == <<".", "c", "s", "v">>

\* the entries a user types into the form
DUNE == PyStr(<<"D", "u", "n", "e">>)
DUNE_LOWER == PyStr(<<"d", "u", "n", "e">>)
EMMA == PyStr(<<"E", "m", "m", "a">>)
HERBERT == PyStr(<<"F", "H">>)
AUSTEN == PyStr(<<"J", "A">>)
SCIFI == PyStr(<<"S", "F">>)
NOVEL == PyStr(<<"N", "o", "v">>)

\* the books LibraryApp.add_book can pass to Library.add_book: the four
\* entries are non-empty and the year went through int()
AddableBooks ==
    {Book(DUNE, HERBERT, SCIFI, PyInt(1965)),
     Book(EMMA, AUSTEN, NOVEL, PyInt(1815))}

\* titles typed into the remove entry
RemoveTitles == {<<"D", "U", "N", "E">>, <<"e", "m", "m", "a">>}

\* queries typed into the search entry, and the empty query
Queries == {<<"D", "U", "N", "E">>, <<>>}

\* one JSON object, as json.dump writes a book or as a hand-edited file
\* holds it with the year in quotes
JsonRecord(book) == [k \in Keys |-> JsonEncode(to_dict(book)[k])]
DUNE_1965 == Book(DUNE, HERBERT, SCIFI, PyInt(1965))
EMMA_1815 == Book(EMMA, AUSTEN, NOVEL, PyInt(1815))
DUNE_QUOTED == Book(DUNE_LOWER, HERBERT, SCIFI, PyStr(<<"1", "9", "6", "5">>))
NO_YEAR == [title |-> JsonEncode(DUNE), author |-> JsonEncode(HERBERT), genre |-> JsonEncode(SCIFI)]

\* files a user may pick in the import dialog, by path; titles, authors and
\* genres are JSON strings in all of them, only the year varies in type
ExternalFiles ==
    << [path |-> <<"a", ".", "j", "s", "o", "n">>, file |-> JsonText(<<JsonRecord(EMMA_1815)>>)],
       [path |-> <<"s", ".", "j", "s", "o", "n">>, file |-> JsonText(<<JsonRecord(DUNE_QUOTED)>>)],
       [path |-> <<"k", ".", "j", "s", "o", "n">>, file |-> JsonText(<<JsonRecord(EMMA_1815), NO_YEAR>>)],
       [path |-> <<"g", ".", "j", "s", "o", "n">>, file |-> Garbage],
       [path |-> <<"n", ".", "j", "s", "o", "n">>, file |-> Absent],
       [path |-> <<"a", ".", "c", "s", "v">>,
        file |-> CsvText(FIELDNAMES,
                         << <<DUNE.s, HERBERT.s, SCIFI.s, <<" ", "1", "9", "6", "5">> >>,
                            <<>>,
                            <<EMMA.s, AUSTEN.s, NOVEL.s, <<"+", "1", "8", "1", "5">> >> >>)],
       [path |-> <<"x", ".", "c", "s", "v">>,
        file |-> CsvText(FIELDNAMES,
                         << <<DUNE.s, HERBERT.s, SCIFI.s, <<"1", "9", "6", "5">> >>,
                            <<EMMA.s, AUSTEN.s, NOVEL.s, <<"1", "8", "1", "5", "?">> >> >>)],
       [path |-> <<"h", ".", "c", "s", "v">>,
        file |-> CsvText(FIELDNAMES, << <<DUNE.s, HERBERT.s>> >>)],
       [path |-> <<"a", ".", "t", "x", "t">>, file |-> JsonText(<<JsonRecord(EMMA_1815)>>)],
       [path |-> <<"a", ".", "J", "S", "O", "N">>, file |-> JsonText(<<JsonRecord(EMMA_1815)>>)] >>

\* what library_data.json may hold when the program starts
InitialJson ==
    {Absent, Garbage,
     JsonText(<<>>),
     JsonText(<<JsonRecord(DUNE_1965), JsonRecord(EMMA_1815)>>),
     JsonText(<<JsonRecord(DUNE_QUOTED)>>),
     JsonText(<<JsonRecord(EMMA_1815), NO_YEAR>>)}

\* what library_data.csv may hold when the program starts
InitialCsv ==
    {Absent,
     CsvText(FIELDNAMES, << <<DUNE.s, HERBERT.s, SCIFI.s, <<"1", "9", "6", "5">> >> >>),
     CsvText(FIELDNAMES, << <<EMMA.s, AUSTEN.s, NOVEL.s, <<"1", "8", "1", "5">> >>,
                            <<DUNE.s, HERBERT.s, SCIFI.s, <<"x">> >> >>)}

(***************************************************************************)
(* State.                                                                  *)
(***************************************************************************)
VARIABLES
    books,       \* Library.books
    json_file,   \* the file at self.json_filename
    csv_file,    \* the file at self.csv_filename
    last,        \* the last operation called on the Library and its outcome
    results      \* the list the last search_books / get_all_books returned

vars == <<books, json_file, csv_file, last, results>>

\* The outcome of an operation:
\*   op      the method called ("init" is the constructor)
\*   arg     the format argument of save_library / export_library
\*   result  what its caller receives: "None", "True", "False", "list",
\*           or "raise" when an exception leaves the method
\*   saved   what save_library returned inside it ("not_called" if it was
\*           not called)
\*   source  the loader load_library chose ("json", "csv", "none")
\*   loaded  what load_library returned inside it
\*   dialog  the messagebox.showerror text the method put up ("" if none)
Outcome(op, arg, result, saved, source, loaded, dialog) ==
    [op |-> op, arg |-> arg, result |-> result, saved |-> saved,
     source |-> source, loaded |-> loaded, dialog |-> dialog]

Bool(b) == IF b THEN "True" ELSE "False"

(***************************************************************************)
(* Writing a file.  open(name, 'w') may raise before the file is touched;  *)
(* the write may fail after the file was truncated, which leaves a prefix  *)
(* of the text: nothing, an unparseable piece of a JSON document, or the   *)
(* first lines of a CSV table.                                             *)
(***************************************************************************)
Truncated(text) ==
    IF text.kind = "json"
    THEN IF text.doc = <<>> THEN {Blank} ELSE {Blank, Garbage}
    ELSE {Blank} \cup {CsvText(text.header, SubSeq(text.rows, 1, k)) :
                          k \in 0..(Len(text.rows) - 1)}

\* the outcomes of `with open(name, 'w') as f: <write text>`
WriteFile(old, text) ==
    {[ok |-> TRUE, file |-> text], [ok |-> FALSE, file |-> old]}
        \cup {[ok |-> FALSE, file |-> t] : t \in Truncated(text)}

\* Library._save_to_json
_save_to_json(bs, old) == WriteFile(old, JsonText(JsonDump(bs)))

\* Library._save_to_csv
_save_to_csv(bs, old) == WriteFile(old, CsvDump(bs))

\* load_library with the two tests in the other order
load_library_csv_first(jf, cf) ==
    IF cf.exists THEN [source |-> "csv", read |-> ReadCsv(cf)]
    ELSE IF jf.exists THEN [source |-> "json", read |-> ReadJson(jf)]
    ELSE [source |-> "none", read |-> Raised]

\* Library.load_library: JSON if the file exists, else CSV if that file
\* exists, else nothing; an exception of the loader is caught and shown
load_library(jf, cf) ==
    IF jf.exists THEN [source |-> "json", read |-> ReadJson(jf)]
    ELSE IF cf.exists THEN [source |-> "csv", read |-> ReadCsv(cf)]
    ELSE [source |-> "none", read |-> Raised]

RECURSIVE LoadablePrefixJson(_, _)
\* the objects of the array up to the first one from_dict raises on
LoadablePrefixJson(data, acc) ==
    IF data = <<>> \/ from_dict_raises(JsonObject(Head(data))) THEN acc
    ELSE LoadablePrefixJson(Tail(data), Append(acc, from_dict(JsonObject(Head(data)))))

RECURSIVE LoadablePrefixCsv(_, _, _)
\* the rows of the table up to the first one Book(...) raises on
LoadablePrefixCsv(header, rows, acc) ==
    IF rows = <<>> THEN acc
    ELSE IF Head(rows) = <<>> THEN LoadablePrefixCsv(header, Tail(rows), acc)
    ELSE IF CsvRowRaises(CsvDict(header, Head(rows))) THEN acc
    ELSE LoadablePrefixCsv(header, Tail(rows), Append(acc, CsvBook(CsvDict(header, Head(rows)))))

\* the constructor with loaders that append to self.books record by record
\* instead of assigning the finished list: the records before the failing
\* one stay in the list
Constructed_appending(jf, cf) ==
    LET l == load_library(jf, cf)
    IN  [books |-> IF l.read.ok THEN l.read.books
                   ELSE IF l.source = "json" /\ jf.kind = "json"
                        THEN LoadablePrefixJson(jf.doc, <<>>)
                   ELSE IF l.source = "csv" /\ cf.kind # "garbage"
                        THEN LoadablePrefixCsv(CsvHeader(cf), CsvRows(cf), <<>>)
                   ELSE <<>>,
         last |-> Outcome("init", "", "None", "not_called", l.source, Bool(l.read.ok),
                          IF l.source # "none" /\ ~l.read.ok
                          THEN "Failed to load library" ELSE "")]

\* Library.__init__: self.books = [] and load_library(), whose return value
\* is dropped; the loaders assign self.books only when nothing raised
Constructed(jf, cf) ==
    LET l == load_library(jf, cf)
    IN  [books |-> IF l.read.ok THEN l.read.books ELSE <<>>,
         last |-> Outcome("init", "", "None", "not_called", l.source, Bool(l.read.ok),
                          IF l.source # "none" /\ ~l.read.ok
                          THEN "Failed to load library" ELSE "")]

Init ==
    /\ json_file \in InitialJson
    /\ csv_file \in InitialCsv
    /\ books = Constructed(json_file, csv_file).books
    /\ last = Constructed(json_file, csv_file).last
    /\ results = <<>>

\* the program is started again: a new Library is constructed
Restart ==
    /\ books' = Constructed(json_file, csv_file).books
    /\ last' = Constructed(json_file, csv_file).last
    /\ results' = <<>>
    /\ UNCHANGED <<json_file, csv_file>>

\* the dialog save_library puts up when the writer raised
SaveDialog(ok) == IF ok THEN "" ELSE "Failed to save library"

\* add_book with the two statements in the other order: the file is
\* written before the book is appended
add_book_save_first(book) ==
    /\ Len(books) < MaxBooks
    /\ books' = Append(books, book)
    /\ \E w \in _save_to_json(books, json_file) :
          /\ json_file' = w.file
          /\ last' = Outcome("add", "", "None", Bool(w.ok), "", "", SaveDialog(w.ok))
    /\ results' = <<>>
    /\ UNCHANGED csv_file

\* Library.add_book
add_book(book) ==
    /\ Len(books) < MaxBooks
    /\ books' = Append(books, book)
    /\ \E w \in _save_to_json(books', json_file) :
          /\ json_file' = w.file
          /\ last' = Outcome("add", "", "None", Bool(w.ok), "", "", SaveDialog(w.ok))
    /\ results' = <<>>
    /\ UNCHANGED csv_file

\* remove_book without its return inside the loop: the last match is deleted
FirstMatch_last(bs, title) ==
    IF \E i \in 1..Len(bs) : Lower(TitleOf(bs[i]).s) = Lower(title)
    THEN CHOOSE i \in 1..Len(bs) :
            /\ Lower(TitleOf(bs[i]).s) = Lower(title)
            /\ \A j \in (i + 1)..Len(bs) : Lower(TitleOf(bs[j]).s) # Lower(title)
    ELSE 0

\* the index enumerate() stops at in remove_book: the first book whose
\* lowered title equals the lowered argument, 0 if there is none
FirstMatch(bs, title) ==
    IF \E i \in 1..Len(bs) : Lower(TitleOf(bs[i]).s) = Lower(title)
    THEN CHOOSE i \in 1..Len(bs) :
            /\ Lower(TitleOf(bs[i]).s) = Lower(title)
            /\ \A j \in 1..(i - 1) : Lower(TitleOf(bs[j]).s) # Lower(title)
    ELSE 0

\* del self.books[i]
Delete(bs, i) == SubSeq(bs, 1, i - 1) \o SubSeq(bs, i + 1, Len(bs))

\* Library.remove_book
remove_book(title) ==
    LET i == FirstMatch(books, title)
    IN  /\ results' = <<>>
        /\ UNCHANGED csv_file
        /\ IF i = 0
           THEN /\ last' = Outcome("remove", "", "False", "not_called", "", "", "")
                /\ UNCHANGED <<books, json_file>>
           ELSE /\ books' = Delete(books, i)
                /\ \E w \in _save_to_json(books', json_file) :
                      /\ json_file' = w.file
                      /\ last' = Outcome("remove", "", "True", Bool(w.ok), "", "",
                                         SaveDialog(w.ok))

\* the test of search_books on one book
Matches(query, book) ==
    \/ Contains(Lower(query), Lower(TitleOf(book).s))
    \/ Contains(Lower(query), Lower(AuthorOf(book).s))
    \/ Contains(Lower(query), Lower(GenreOf(book).s))

RECURSIVE Filter(_, _)
Filter(query, bs) ==
    IF bs = <<>> THEN <<>>
    ELSE IF Matches(query, Head(bs)) THEN <<Head(bs)>> \o Filter(query, Tail(bs))
    ELSE Filter(query, Tail(bs))

\* Library.search_books
search_books(query) ==
    /\ results' = Filter(query, books)
    /\ last' = Outcome("search", "", "list", "not_called", "", "", "")
    /\ UNCHANGED <<books, json_file, csv_file>>

\* Library.get_all_books
get_all_books ==
    /\ results' = books
    /\ last' = Outcome("list", "", "list", "not_called", "", "", "")
    /\ UNCHANGED <<books, json_file, csv_file>>

\* formats a caller may pass to save_library / export_library
Formats == {"json", "csv", "xml"}

\* Library.save_library(format), called directly
save_library(format) ==
    /\ results' = <<>>
    /\ UNCHANGED books
    /\ CASE format = "json" ->
              \E w \in _save_to_json(books, json_file) :
                 /\ json_file' = w.file
                 /\ last' = Outcome("save", format, Bool(w.ok), Bool(w.ok), "", "",
                                    SaveDialog(w.ok))
                 /\ UNCHANGED csv_file
         [] format = "csv" ->
              \E w \in _save_to_csv(books, csv_file) :
                 /\ csv_file' = w.file
                 /\ last' = Outcome("save", format, Bool(w.ok), Bool(w.ok), "", "",
                                    SaveDialog(w.ok))
                 /\ UNCHANGED json_file
         [] OTHER ->
              /\ last' = Outcome("save", format, "False", "False", "", "", "")
              /\ UNCHANGED <<json_file, csv_file>>

\* the paths of the files outside the two canonical ones
ExternalPaths == {ExternalFiles[e].path : e \in 1..Len(ExternalFiles)}

\* the file at each of these paths
ExternalFile ==
    [p \in ExternalPaths |->
        ExternalFiles[CHOOSE e \in 1..Len(ExternalFiles) : ExternalFiles[e].path = p].file]

\* the file a path names
FileAt(path) ==
    CASE path = JSON_FILENAME -> json_file
      [] path = CSV_FILENAME -> csv_file
      [] path \in ExternalPaths -> ExternalFile[path]
      [] OTHER -> Absent

\* paths a caller may export to
ExportPaths == {JSON_FILENAME, CSV_FILENAME, EXPORT_PATH}

\* paths a caller may import from
ImportPaths ==
    {JSON_FILENAME, CSV_FILENAME} \cup ExternalPaths

\* the text export_library writes for a format
ExportText(bs, format) ==
    IF format = "json" THEN JsonText(JsonDump(bs)) ELSE CsvDump(bs)

\* export_library that writes through save_library: the canonical file of
\* the format is written as well as the file asked for
export_library_via_save(filename, format) ==
    /\ results' = <<>>
    /\ UNCHANGED books
    /\ IF format \in {"json", "csv"}
       THEN \E w \in WriteFile(FileAt(filename), ExportText(books, format)) :
               /\ json_file' = IF filename = JSON_FILENAME THEN w.file
                               ELSE IF format = "json" THEN ExportText(books, format)
                               ELSE json_file
               /\ csv_file' = IF filename = CSV_FILENAME THEN w.file
                              ELSE IF format = "csv" THEN ExportText(books, format)
                              ELSE csv_file
               /\ last' = Outcome("export", format, Bool(w.ok), "not_called", "", "",
                                  IF w.ok THEN "" ELSE "Failed to export library")
       ELSE /\ last' = Outcome("export", format, "False", "not_called", "", "", "")
            /\ UNCHANGED <<json_file, csv_file>>

\* Library.export_library
export_library(filename, format) ==
    /\ results' = <<>>
    /\ UNCHANGED books
    /\ IF format \in {"json", "csv"}
       THEN \E w \in WriteFile(FileAt(filename), ExportText(books, format)) :
               /\ json_file' = IF filename = JSON_FILENAME THEN w.file ELSE json_file
               /\ csv_file' = IF filename = CSV_FILENAME THEN w.file ELSE csv_file
               /\ last' = Outcome("export", format, Bool(w.ok), "not_called", "", "",
                                  IF w.ok THEN "" ELSE "Failed to export library")
       ELSE /\ last' = Outcome("export", format, "False", "not_called", "", "", "")
            /\ UNCHANGED <<json_file, csv_file>>

\* import_library without its else branch: a path that does not end in
\* .csv is read as JSON
ImportFormat_json_default(filename) ==
    IF EndsWith(filename, DOT_CSV) THEN "csv" ELSE "json"

\* the branch import_library takes for a path
ImportFormat(filename) ==
    IF EndsWith(filename, DOT_JSON) THEN "json"
    ELSE IF EndsWith(filename, DOT_CSV) THEN "csv"
    ELSE "unsupported"

\* what the two readers make of each file outside the canonical ones
ExternalJson == [p \in ExternalPaths |-> ReadJson(ExternalFile[p])]
ExternalCsv == [p \in ExternalPaths |-> ReadCsv(ExternalFile[p])]

\* temp_books, or the exception raised while it is built
ImportRead(filename) ==
    IF ImportFormat(filename) = "json"
    THEN IF filename \in ExternalPaths THEN ExternalJson[filename]
         ELSE ReadJson(FileAt(filename))
    ELSE IF filename \in ExternalPaths THEN ExternalCsv[filename]
         ELSE ReadCsv(FileAt(filename))

\* self.books = temp_books
Extend_replace(bs, temp_books) == temp_books

\* self.books.extend(temp_books)
Extend(bs, temp_books) == bs \o temp_books

\* Library.import_library
import_library(filename) ==
    /\ results' = <<>>
    /\ UNCHANGED csv_file
    /\ IF ImportFormat(filename) = "unsupported"
       THEN /\ last' = Outcome("import", "", "False", "not_called", "", "",
                               "Unsupported file format")
            /\ UNCHANGED <<books, json_file>>
       ELSE LET r == ImportRead(filename)
            IN  IF ~r.ok
                THEN /\ last' = Outcome("import", "", "False", "not_called", "", "",
                                        "Failed to import library")
                     /\ UNCHANGED <<books, json_file>>
                ELSE /\ Len(books) + Len(r.books) <= MaxBooks
                     /\ books' = Extend(books, r.books)
                     /\ \E w \in _save_to_json(books', json_file) :
                           /\ json_file' = w.file
                           /\ last' = Outcome("import", "", "True", Bool(w.ok), "", "",
                                              SaveDialog(w.ok))

(***************************************************************************)
(* The store as the application window drives it: construction, the three  *)
(* mutating operations and the two queries.                                *)
(***************************************************************************)
Next ==
    \/ Restart
    \/ \E book \in AddableBooks : add_book(book)
    \/ \E title \in RemoveTitles : remove_book(title)
    \/ \E query \in Queries : search_books(query)
    \/ get_all_books
    \/ \E filename \in ImportPaths : import_library(filename)

Spec == Init /\ [][Next]_vars

(***************************************************************************)
(* The store as a caller of the Library class drives it: save_library and  *)
(* export_library with every format and path, the two queries, and a new   *)
(* construction.  It starts from the states get_all_books leaves when no   *)
(* canonical file was written yet (every open(..., 'w') so far raised).    *)
(***************************************************************************)
\* the books a Library can hold: the ones added and the ones the files hold
HeldBooks == AddableBooks \cup {DUNE_QUOTED}

RECURSIVE Lists(_, _)
\* the lists of at most k elements of S
Lists(S, k) ==
    IF k = 0 THEN {<<>>}
    ELSE Lists(S, k - 1) \cup {Append(l, x) : l \in Lists(S, k - 1), x \in S}

InitApi ==
    /\ books \in Lists(HeldBooks, MaxBooks)
    /\ json_file = Absent
    /\ csv_file = Absent
    /\ last = Outcome("list", "", "list", "not_called", "", "", "")
    /\ results = books

NextApi ==
    \/ Restart
    \/ \E query \in Queries : search_books(query)
    \/ get_all_books
    \/ \E format \in Formats : save_library(format)
    \/ \E filename \in ExportPaths, format \in Formats : export_library(filename, format)

SpecApi == InitApi /\ [][NextApi]_vars

(***************************************************************************)
(* Properties.                                                             *)
(***************************************************************************)
\* the file holds a JSON array with one object per book of bs, in the
\* order of bs, each with the book's four values under the four keys
FileHolds(file, bs) ==
    /\ file.exists
    /\ file.kind = "json"
    /\ Len(file.doc) = Len(bs)
    /\ \A i \in 1..Len(bs) :
          /\ DOMAIN file.doc[i] = Keys
          /\ JsonDecode(file.doc[i]["title"]) = TitleOf(bs[i])
          /\ JsonDecode(file.doc[i]["author"]) = AuthorOf(bs[i])
          /\ JsonDecode(file.doc[i]["genre"]) = GenreOf(bs[i])
          /\ JsonDecode(file.doc[i]["year"]) = YearOf(bs[i])

Mutators == {"add", "remove", "import"}

C2_FailedRewriteReported ==
    (last.op \in Mutators /\ last.saved = "False")
        => last.result \in {"False", "raise"}

\* C3: when a canonical file exists at construction and cannot be parsed,
\* the constructor surfaces the error to the code that constructs the store.
C3_LoadErrorSurfaced ==
    (last.op = "init" /\ last.source # "none" /\ last.loaded = "False")
        => last.result = "raise"

\* C4: loading library_data.json with a record whose year is not an integer
\* fails, so every book in memory after a load has an integer year.
C4_LoadedYearsAreIntegers ==
    (last.op = "init" /\ last.source = "json")
        => /\ (\E i \in 1..Len(json_file.doc) :
                  /\ "year" \in DOMAIN json_file.doc[i]
                  /\ json_file.doc[i]["year"].j # "number")
               => last.loaded = "False"
           /\ \A i \in 1..Len(books) : YearOf(books[i]).tag = "int"

\* what the claims call "nothing changed"
StoreUnchanged == books' = books /\ json_file' = json_file /\ csv_file' = csv_file

\* C5: an import_library call whose path ends in neither .json nor .csv, or
\* whose file cannot be read or parsed, returns False and leaves the books in
\* memory and the canonical files as they were: a step of import_library
\* either returns False and changes nothing, or is not a call with such a
\* path.
C5_FailedImportChangesNothing ==
    [][last'.op = "import" =>
          \/ last'.result = "False" /\ StoreUnchanged
          \/ ~\E filename \in ImportPaths :
                /\ \/ ~(EndsWith(filename, DOT_JSON) \/ EndsWith(filename, DOT_CSV))
                   \/ EndsWith(filename, DOT_JSON) /\ ~ReadJson(FileAt(filename)).ok
                   \/ EndsWith(filename, DOT_CSV) /\ ~ReadCsv(FileAt(filename)).ok
                /\ import_library(filename)]_vars

\* an import was refused while the store held books
C5_Witness ==
    /\ last.op = "import"
    /\ last.result = "False"
    /\ last.dialog = "Unsupported file format"
    /\ books # <<>>

\* C6: add_book(r) leaves the previous list followed by r; an import_library
\* that returns True leaves the previous list followed by the records of the
\* file in file order.  Nothing is replaced, reordered or deduplicated.
C6_AppendOnly ==
    [][/\ \A book \in AddableBooks :
             (last'.op = "add" /\ add_book(book)) =>
                /\ Len(books') = Len(books) + 1
                /\ books'[Len(books')] = book
                /\ SubSeq(books', 1, Len(books)) = books
       /\ \A filename \in ImportPaths :
             (last'.op = "import" /\ last'.result = "True" /\ import_library(filename)) =>
                /\ Len(books') = Len(books) + Len(ImportRead(filename).books)
                /\ SubSeq(books', 1, Len(books)) = books
                /\ SubSeq(books', Len(books) + 1, Len(books')) = ImportRead(filename).books]_vars

\* a book was added that the list already held
C6_Witness ==
    /\ last.op = "add"
    /\ Len(books) = 2
    /\ books[1] = books[2]

\* C7: remove_book(title) deletes only the first book whose title equals the
\* argument ignoring case, keeps every other book in order and returns True;
\* when no title matches it returns False, writes no file and changes nothing.
C7_RemoveFirstMatch ==
    [][\A title \in RemoveTitles :
          (last'.op = "remove" /\ remove_book(title)) =>
             LET hits == {i \in 1..Len(books) : Lower(TitleOf(books[i]).s) = Lower(title)}
             IN  IF hits = {}
                 THEN /\ last'.result = "False"
                      /\ last'.saved = "not_called"
                      /\ StoreUnchanged
                 ELSE /\ last'.result = "True"
                      /\ Len(books') = Len(books) - 1
                      /\ \E i \in hits :
                            /\ \A j \in hits : i <= j
                            /\ \A k \in 1..(i - 1) : books'[k] = books[k]
                            /\ \A k \in i..Len(books') : books'[k] = books[k + 1]]_vars

\* a removal found its match and every book left is titled Dune in some
\* case: a duplicate of the removed title, or the books around another one
C7_Witness ==
    /\ last.op = "remove"
    /\ last.result = "True"
    /\ \E i \in 1..Len(books) : Lower(TitleOf(books[i]).s) = Lower(DUNE.s)
    /\ \A i \in 1..Len(books) : Lower(TitleOf(books[i]).s) = Lower(DUNE.s)

\* C8, as stated: search_books, get_all_books and export_library never
\* change the books in memory and never write library_data.json or
\* library_data.csv, whatever query, path and format they are given.
C8_AsStated ==
    [][last'.op \in {"search", "list", "export"} => StoreUnchanged]_vars

\* C8, amended: search_books and get_all_books never change the books in
\* memory nor the canonical files; export_library never changes the books
\* in memory, and for no format does it change a canonical file when the
\* path it is given is not one of the two canonical paths (a step of
\* export_library that changes one is no call with another path).
C8_ReadOnlyOperations ==
    [][/\ last'.op \in {"search", "list"} => StoreUnchanged
       /\ last'.op = "export" =>
             /\ books' = books
             /\ \/ StoreUnchanged
                \/ ~\E filename \in ExportPaths \ {JSON_FILENAME, CSV_FILENAME}, format \in Formats :
                      export_library(filename, format)]_vars

\* an export was written elsewhere while no canonical file existed
C8_Witness ==
    /\ last.op = "export"
    /\ last.result = "True"
    /\ books # <<>>
    /\ ~json_file.exists
    /\ ~csv_file.exists

\* C9: the constructor loads from library_data.json whenever that file
\* exists, whatever library_data.csv holds; it loads from library_data.csv
\* only when the JSON file is absent; with neither file the list is empty
\* and no error is shown.
C9_RestoreOrder ==
    last.op = "init" =>
        /\ json_file.exists =>
              /\ last.source = "json"
              /\ books = ReadJson(json_file).books
              /\ last.loaded = Bool(ReadJson(json_file).ok)
        /\ (~json_file.exists /\ csv_file.exists) =>
              /\ last.source = "csv"
              /\ books = ReadCsv(csv_file).books
              /\ last.loaded = Bool(ReadCsv(csv_file).ok)
        /\ (~json_file.exists /\ ~csv_file.exists) =>
              /\ last.source = "none"
              /\ books = <<>>
              /\ last.dialog = ""

\* the JSON file was loaded although the CSV file holds other books
C9_Witness ==
    /\ last.op = "init"
    /\ json_file.exists
    /\ csv_file.exists
    /\ ReadCsv(csv_file).ok
    /\ last.loaded = "True"
    /\ books # <<>>
    /\ books # ReadCsv(csv_file).books

\* C10: saving any list of books in JSON format and constructing a new
\* Library on that file gives back an equal list, in order, field for field
\* and with every year an integer; the same for CSV format.
C10_RoundTrip ==
    [][(/\ last.op = "save"
        /\ last.result = "True"
        /\ last.arg = "json" \/ (last.arg = "csv" /\ ~json_file.exists)
        /\ last'.op = "init")
          => /\ books' = books
             /\ \A i \in 1..Len(books') : YearOf(books'[i]).tag = "int"]_vars

\* C11: restore is all-or-nothing: when the loader of the canonical file the
\* constructor chose raises (a file that is not JSON, an object lacking a
\* key, a CSV row whose year int() rejects), the list after construction is
\* empty and the load is reported as failed, whatever records precede the
\* failing one in the file.
C11_RestoreAllOrNothing ==
    (/\ last.op = "init"
     /\ \/ json_file.exists /\ ~ReadJson(json_file).ok
        \/ ~json_file.exists /\ csv_file.exists /\ ~ReadCsv(csv_file).ok)
        => /\ books = <<>>
           /\ last.loaded = "False"

\* the JSON file starts with an object that loads and fails at a later one
C11_Witness ==
    /\ last.op = "init"
    /\ json_file.exists
    /\ json_file.kind = "json"
    /\ Len(json_file.doc) >= 2
    /\ ~from_dict_raises(JsonObject(json_file.doc[1]))
    /\ ~ReadJson(json_file).ok
    /\ books = <<>>

====
